---- MODULE Spec2Model ----
(***************************************************************************)
(* Barbershop booking backend: the scheduling utilities                    *)
(* (utils/scheduleUtils.js), the appointments router (routes/appointments) *)
(* and the waitlist reconciler updateWaitlistForDate.                      *)
(*                                                                         *)
(* Strings that the code formats or parses ("HH:MM" time slots) are        *)
(* sequences of one-character strings, so that padStart, split and Number  *)
(* are real conversions.  JavaScript numbers are records with a NaN flag,  *)
(* since every comparison with NaN is false.  Calendar dates are days of   *)
(* January 2024 (1 January 2024 is a Monday, so getDay(d) = d % 7); the    *)
(* time zone and the time of day of a Date are not modelled.  The fields   *)
(* notes, createdAt and updatedAt are not modelled: creation order is the  *)
(* position of a record in its collection.  The variable calls is a log:   *)
(* the calls of isTimeSlotAvailable and of updateWaitlistForDate that the  *)
(* last request made, with the bookings each of them was given.  The       *)
(* variable twilioUp tells whether the SMS gateway accepts messages.       *)
(***************************************************************************)
EXTENDS Integers, Sequences, FiniteSets

VARIABLES util, appointments, waitlist, loyaltyPoints, outbox, response, reqs, http,
          calls, twilioUp

vars ==
    <<util, appointments, waitlist, loyaltyPoints, outbox, response, reqs, http, calls,
      twilioUp>>

----------------------------------------------------------------------------
(* JavaScript values                                                       *)

NaN == [nan |-> TRUE, n |-> 0]

Num(n) == [nan |-> FALSE, n |-> n]

JsAdd(a, b) == IF a.nan \/ b.nan THEN NaN ELSE Num(a.n + b.n)

JsMul(a, b) == IF a.nan \/ b.nan THEN NaN ELSE Num(a.n * b.n)

JsLt(a, b) == ~a.nan /\ ~b.nan /\ a.n < b.n

JsLe(a, b) == ~a.nan /\ ~b.nan /\ a.n <= b.n

JsGt(a, b) == ~a.nan /\ ~b.nan /\ a.n > b.n

JsGe(a, b) == ~a.nan /\ ~b.nan /\ a.n >= b.n

DigitChars == <<"0", "1", "2", "3", "4", "5", "6", "7", "8", "9">>

IsDigit(c) == c \in {"0", "1", "2", "3", "4", "5", "6", "7", "8", "9"}

DigitVal(c) ==
    CASE c = "0" -> 0 [] c = "1" -> 1 [] c = "2" -> 2 [] c = "3" -> 3 [] c = "4" -> 4
      [] c = "5" -> 5 [] c = "6" -> 6 [] c = "7" -> 7 [] c = "8" -> 8 [] c = "9" -> 9

RECURSIVE DecVal(_)
DecVal(s) ==
    IF s = <<>> THEN 0
    ELSE DecVal(SubSeq(s, 1, Len(s) - 1)) * 10 + DigitVal(s[Len(s)])

\* Number(string): the empty string is 0, a run of decimal digits is its
\* value, anything else over the alphabet used here is NaN.
Number(s) ==
    IF \A i \in 1..Len(s) : IsDigit(s[i]) THEN Num(DecVal(s)) ELSE NaN

\* Number.prototype.toString() of a non-negative integer.
RECURSIVE NumToString(_)
NumToString(n) ==
    IF n < 10 THEN <<DigitChars[n + 1]>>
    ELSE NumToString(n \div 10) \o <<DigitChars[(n % 10) + 1]>>

\* String.prototype.padStart(2, '0')
RECURSIVE PadStart2(_)
PadStart2(s) == IF Len(s) < 2 THEN PadStart2(<<"0">> \o s) ELSE s

\* String.prototype.split(sep) for a one-character separator.
RECURSIVE Split(_, _)
Split(s, sep) ==
    IF \A i \in 1..Len(s) : s[i] # sep THEN <<s>>
    ELSE LET k == CHOOSE i \in 1..Len(s) :
                      s[i] = sep /\ \A j \in 1..(i - 1) : s[j] # sep
         IN <<SubSeq(s, 1, k - 1)>> \o Split(SubSeq(s, k + 1, Len(s)), sep)

\* const [a, b] = parts.map(Number): a missing element is undefined, and
\* undefined in arithmetic is NaN.
Nth(parts, i) == IF i <= Len(parts) THEN Number(parts[i]) ELSE NaN

----------------------------------------------------------------------------
(* utils/scheduleUtils.js                                                  *)

BUSINESS_HOURS == [start |-> 9, end |-> 18]

TIME_SLOT_INTERVAL == 30

\* `${hour.toString().padStart(2, '0')}:${minute.toString().padStart(2, '0')}`
FormatSlot(hour, minute) ==
    PadStart2(NumToString(hour)) \o <<":">> \o PadStart2(NumToString(minute))

\* SlotAt without the padStart calls.
SlotAt_NoPad(i) ==
    LET minutes == i * TIME_SLOT_INTERVAL
        hour == (minutes \div 60) + BUSINESS_HOURS.start
        minute == minutes % 60
    IN NumToString(hour) \o <<":">> \o NumToString(minute)

\* The body of the loop of generateTimeSlots for index i.
SlotAt(i) ==
    LET minutes == i * TIME_SLOT_INTERVAL
        hour == (minutes \div 60) + BUSINESS_HOURS.start
        minute == minutes % 60
    IN FormatSlot(hour, minute)

\* for (let i = 0; i < totalSlots; i++) with totalSlots =
\* ((end - start) * 60) / interval, a real division: i < totalSlots
\* exactly when i * interval < (end - start) * 60.
RECURSIVE GenerateFrom(_)
GenerateFrom(i) ==
    IF i * TIME_SLOT_INTERVAL < (BUSINESS_HOURS.end - BUSINESS_HOURS.start) * 60
    THEN <<SlotAt(i)>> \o GenerateFrom(i + 1)
    ELSE <<>>

generateTimeSlots == GenerateFrom(0)

\* OverlapCheck with the two strict comparisons made inclusive.
OverlapCheck_Inclusive(slotStartMinutes, slotEndMinutes, appStartMinutes, appEndMinutes) ==
    \/ JsGe(slotStartMinutes, appStartMinutes) /\ JsLe(slotStartMinutes, appEndMinutes)
    \/ JsGe(slotEndMinutes, appStartMinutes) /\ JsLe(slotEndMinutes, appEndMinutes)
    \/ JsLe(slotStartMinutes, appStartMinutes) /\ JsGe(slotEndMinutes, appEndMinutes)

\* OverlapCheck without its third condition (candidate covering the booking).
OverlapCheck_TwoWay(slotStartMinutes, slotEndMinutes, appStartMinutes, appEndMinutes) ==
    \/ JsGe(slotStartMinutes, appStartMinutes) /\ JsLt(slotStartMinutes, appEndMinutes)
    \/ JsGt(slotEndMinutes, appStartMinutes) /\ JsLe(slotEndMinutes, appEndMinutes)

\* The three-way overlap condition of isTimeSlotAvailable.
OverlapCheck(slotStartMinutes, slotEndMinutes, appStartMinutes, appEndMinutes) ==
    \/ JsGe(slotStartMinutes, appStartMinutes) /\ JsLt(slotStartMinutes, appEndMinutes)
    \/ JsGt(slotEndMinutes, appStartMinutes) /\ JsLe(slotEndMinutes, appEndMinutes)
    \/ JsLe(slotStartMinutes, appStartMinutes) /\ JsGe(slotEndMinutes, appEndMinutes)

\* OutsideBusinessHours testing the start hour, not the end, against closing.
OutsideBusinessHours_StartOnly(hours, slotEndMinutes) ==
    \/ JsLt(hours, Num(BUSINESS_HOURS.start))
    \/ JsGe(hours, Num(BUSINESS_HOURS.end))

\* if (hours < BUSINESS_HOURS.start || slotEndMinutes > BUSINESS_HOURS.end * 60)
OutsideBusinessHours(hours, slotEndMinutes) ==
    \/ JsLt(hours, Num(BUSINESS_HOURS.start))
    \/ JsGt(slotEndMinutes, Num(BUSINESS_HOURS.end * 60))

\* isTimeSlotAvailable taking the end of an existing booking from the
\* candidate's serviceDuration instead of the booking's own.
isTimeSlotAvailable_CandDuration(timeSlot, existingAppointments, serviceDuration) ==
    LET parts == Split(timeSlot, ":")
        hours == Nth(parts, 1)
        minutes == Nth(parts, 2)
        slotStartMinutes == JsAdd(JsMul(hours, Num(60)), minutes)
        slotEndMinutes == JsAdd(slotStartMinutes, Num(serviceDuration))
    IN IF OutsideBusinessHours(hours, slotEndMinutes) THEN FALSE
       ELSE ~\E k \in 1..Len(existingAppointments) :
               LET appointment == existingAppointments[k]
                   appParts == Split(appointment.timeSlot, ":")
                   appStartMinutes ==
                       JsAdd(JsMul(Nth(appParts, 1), Num(60)), Nth(appParts, 2))
                   appEndMinutes == JsAdd(appStartMinutes, Num(serviceDuration))
               IN OverlapCheck(slotStartMinutes, slotEndMinutes,
                               appStartMinutes, appEndMinutes)

\* existingAppointments is a sequence of [timeSlot, serviceDuration].
isTimeSlotAvailable(timeSlot, existingAppointments, serviceDuration) ==
    LET parts == Split(timeSlot, ":")
        hours == Nth(parts, 1)
        minutes == Nth(parts, 2)
        slotStartMinutes == JsAdd(JsMul(hours, Num(60)), minutes)
        slotEndMinutes == JsAdd(slotStartMinutes, Num(serviceDuration))
    IN IF OutsideBusinessHours(hours, slotEndMinutes) THEN FALSE
       ELSE ~\E k \in 1..Len(existingAppointments) :
               LET appointment == existingAppointments[k]
                   appParts == Split(appointment.timeSlot, ":")
                   appStartMinutes ==
                       JsAdd(JsMul(Nth(appParts, 1), Num(60)), Nth(appParts, 2))
                   appEndMinutes ==
                       JsAdd(appStartMinutes, Num(appointment.serviceDuration))
               IN OverlapCheck(slotStartMinutes, slotEndMinutes,
                               appStartMinutes, appEndMinutes)

\* Filter of a sequence, keeping the order.
RECURSIVE SelectSlots(_, _, _)
SelectSlots(allSlots, existingAppointments, serviceDuration) ==
    IF allSlots = <<>> THEN <<>>
    ELSE (IF isTimeSlotAvailable(Head(allSlots), existingAppointments, serviceDuration)
          THEN <<Head(allSlots)>> ELSE <<>>)
         \o SelectSlots(Tail(allSlots), existingAppointments, serviceDuration)

\* getAvailableTimeSlots with the loop over the grid starting at its second slot.
getAvailableTimeSlots_SkipFirst(date, existingAppointments, serviceDuration) ==
    SelectSlots(Tail(generateTimeSlots), existingAppointments, serviceDuration)

\* getAvailableTimeSlots checking each slot against the first existing
\* booking only.
getAvailableTimeSlots_FirstBookingOnly(date, existingAppointments, serviceDuration) ==
    SelectSlots(generateTimeSlots,
                SubSeq(existingAppointments, 1, IF existingAppointments = <<>> THEN 0 ELSE 1),
                serviceDuration)

\* The date argument is not used by the code.
getAvailableTimeSlots(date, existingAppointments, serviceDuration) ==
    SelectSlots(generateTimeSlots, existingAppointments, serviceDuration)

\* Date.prototype.getDay() of a day of January 2024.
getDay(date) == date % 7

isBusinessDay(date) ==
    LET day == getDay(date)
    IN IF day = 0 \/ day = 6 THEN FALSE ELSE TRUE

----------------------------------------------------------------------------
(* Documents of the data store                                             *)

\* The Service documents: duration in minutes and loyaltyPointsEarned.
ServiceDocs ==
    [s \in {"s30", "s60", "s510"} |->
        CASE s = "s30" -> [duration |-> 30, loyaltyPointsEarned |-> 10]
          [] s = "s60" -> [duration |-> 60, loyaltyPointsEarned |-> 0]
          [] s = "s510" -> [duration |-> 510, loyaltyPointsEarned |-> 0]]

\* The User documents: role and notification preferences.  An identity that
\* is authenticated but has no User document ("g1", a deleted user whose
\* token is still valid) is not in the domain.
UserDocs ==
    [u \in {"u1", "a1"} |->
        IF u = "u1"
        THEN [role |-> "user", emailNotifications |-> TRUE, smsNotifications |-> TRUE]
        ELSE [role |-> "admin", emailNotifications |-> TRUE, smsNotifications |-> FALSE]]

\* req.user as set by the auth middleware from the token.
ReqUser(id) == [id |-> id, role |-> IF id = "a1" THEN "admin" ELSE "user"]

\* The current day, new Date(): Friday 5 January 2024.
Today == 5

\* new Date(date) for the date strings used as inputs: the day of January
\* 2024, or invalid (getTime() is NaN).
ParseDate(date) ==
    CASE date = "2024-01-04" -> [valid |-> TRUE, day |-> 4]
      [] date = "2024-01-05" -> [valid |-> TRUE, day |-> 5]
      [] date = "2024-01-06" -> [valid |-> TRUE, day |-> 6]
      [] date = "2024-01-08" -> [valid |-> TRUE, day |-> 8]
      [] date = "2024-01-09" -> [valid |-> TRUE, day |-> 9]
      [] OTHER -> [valid |-> FALSE, day |-> 0]

\* The strings that mongoose casts to an ObjectId; findById of any other
\* string throws a CastError.
IsObjectId(id) == id \in {"s30", "s60", "s510", "s99", "u1", "a1", "g1", "id1", "id2", "id3", "id9"}

\* IsActive leaving out the cancelled appointments only.
IsActive_CancelledOnly(status) == status # "cancelled"

\* status: { $nin: ['cancelled', 'no-show'] }
IsActive(status) == status \notin {"cancelled", "no-show"}

\* The status of a new Appointment document (schema default).
DefaultStatus == "pending"

StatusEnum == {"pending", "confirmed", "cancelled", "completed", "no-show"}

----------------------------------------------------------------------------
(* Calls of the scheduling utilities on bounded inputs                     *)

MaxBookings == 2

UtilHours == {8, 9, 17}

UtilMinutes == {0, 30, 45}

UtilDurations == {15, 30, 60}

BookingInputs ==
    {[hour |-> 9, minute |-> 0, duration |-> 30],
     [hour |-> 9, minute |-> 0, duration |-> 60],
     [hour |-> 9, minute |-> 15, duration |-> 30],
     [hour |-> 9, minute |-> 30, duration |-> 30],
     [hour |-> 9, minute |-> 0, duration |-> 540]}

BookingLists == UNION {[1..n -> BookingInputs] : n \in 0..MaxBookings}

\* The { timeSlot, serviceDuration } objects the callers hand to the utilities.
UtilFormatted(bookings) ==
    [k \in 1..Len(bookings) |->
        [timeSlot |-> FormatSlot(bookings[k].hour, bookings[k].minute),
         serviceDuration |-> bookings[k].duration]]

UtilIdle ==
    [hour |-> 9, minute |-> 0, duration |-> 30, bookings |-> <<>>,
     op |-> "none", avail |-> FALSE, slots |-> <<>>]

InitUtil ==
    /\ util \in [hour : UtilHours, minute : UtilMinutes, duration : UtilDurations,
                 bookings : BookingLists,
                 op : {"none"}, avail : {FALSE}, slots : {<<>>}]
    /\ appointments = <<>>
    /\ waitlist = <<>>
    /\ loyaltyPoints = [u \in DOMAIN UserDocs |-> 0]
    /\ outbox = <<>>
    /\ response = [op |-> "none", code |-> 0]
    /\ reqs = <<>>
    /\ http = [stage |-> "idle"]
    /\ calls = <<>>
    /\ twilioUp = TRUE

CallGenerateTimeSlots ==
    /\ util' = [util EXCEPT !.op = "generateTimeSlots",
                            !.slots = generateTimeSlots]
    /\ UNCHANGED <<appointments, waitlist, loyaltyPoints, outbox, response, reqs, http, calls, twilioUp>>

CallIsTimeSlotAvailable ==
    /\ util' = [util EXCEPT !.op = "isTimeSlotAvailable",
                            !.avail = isTimeSlotAvailable(
                                          FormatSlot(util.hour, util.minute),
                                          UtilFormatted(util.bookings),
                                          util.duration)]
    /\ UNCHANGED <<appointments, waitlist, loyaltyPoints, outbox, response, reqs, http, calls, twilioUp>>

CallGetAvailableTimeSlots ==
    /\ util' = [util EXCEPT !.op = "getAvailableTimeSlots",
                            !.slots = getAvailableTimeSlots(
                                          0, UtilFormatted(util.bookings), util.duration)]
    /\ UNCHANGED <<appointments, waitlist, loyaltyPoints, outbox, response, reqs, http, calls, twilioUp>>

NextUtil ==
    \/ CallGenerateTimeSlots
    \/ CallIsTimeSlotAvailable
    \/ CallGetAvailableTimeSlots

SpecUtil == InitUtil /\ [][NextUtil]_vars

----------------------------------------------------------------------------
(* Properties of the scheduling utilities (checked under SpecUtil)         *)

CandStart == util.hour * 60 + util.minute

CandEnd == CandStart + util.duration

BookingStart(b) == b.hour * 60 + b.minute

BookingEnd(b) == BookingStart(b) + b.duration

CandFits == CandStart >= 9 * 60 /\ CandEnd <= 18 * 60

\* The minutes since midnight a five-character "HH:MM" string denotes.
MinutesOf(s) ==
    (DigitVal(s[1]) * 10 + DigitVal(s[2])) * 60 + DigitVal(s[4]) * 10 + DigitVal(s[5])

WellFormed(s) ==
    /\ Len(s) = 5
    /\ s[3] = ":"
    /\ \A i \in {1, 2, 4, 5} : IsDigit(s[i])

InGrid(slot) == \E i \in 1..Len(generateTimeSlots) : generateTimeSlots[i] = slot

\* C5: generateTimeSlots returns, on every call, exactly 18 zero-padded
\* "HH:MM" slots, the i-th denoting 09:00 plus 30 * (i - 1) minutes (so
\* strictly ascending in 30-minute steps), the first "09:00", the last "17:30".
C5_GridShape ==
    util.op = "generateTimeSlots" =>
        /\ Len(util.slots) = 18
        /\ util.slots[1] = <<"0", "9", ":", "0", "0">>
        /\ util.slots[18] = <<"1", "7", ":", "3", "0">>
        /\ \A i \in 1..18 :
              /\ WellFormed(util.slots[i])
              /\ MinutesOf(util.slots[i]) = 9 * 60 + 30 * (i - 1)

C5_Witness ==
    /\ util.op = "generateTimeSlots"
    /\ Len(util.slots) = 18
    /\ util.slots[2] = <<"0", "9", ":", "3", "0">>

\* C6: a candidate that starts before 09:00 or ends after 18:00 is rejected
\* by isTimeSlotAvailable whatever the existing bookings are.
C6_OutsideHoursRejected ==
    (util.op = "isTimeSlotAvailable" /\ (CandStart < 9 * 60 \/ CandEnd > 18 * 60))
        => util.avail = FALSE

C6_Witness ==
    /\ util.op = "isTimeSlotAvailable"
    /\ util.hour = 17 /\ util.minute = 45 /\ util.duration = 30
    /\ util.avail = FALSE

\* C7: a candidate within business hours whose interval only touches the
\* existing bookings at a boundary (its start is the booking's end, or its end
\* the booking's start) is available.
C7_TouchingIsFree ==
    (/\ util.op = "isTimeSlotAvailable"
     /\ CandFits
     /\ util.bookings # <<>>
     /\ \A k \in 1..Len(util.bookings) :
           \/ CandStart = BookingEnd(util.bookings[k])
           \/ CandEnd = BookingStart(util.bookings[k]))
        => util.avail = TRUE

C7_Witness ==
    /\ util.op = "isTimeSlotAvailable"
    /\ util.hour = 9 /\ util.minute = 30 /\ util.duration = 30
    /\ util.bookings = <<[hour |-> 9, minute |-> 0, duration |-> 30]>>
    /\ util.avail = TRUE

\* C8: for a candidate within business hours, isTimeSlotAvailable is false
\* exactly when some existing booking overlaps it under the half-open test
\* candidateStart < bookingEnd and bookingStart < candidateEnd.
C8_HalfOpenEquivalence ==
    (util.op = "isTimeSlotAvailable" /\ CandFits) =>
        (util.avail = FALSE <=>
            \E k \in 1..Len(util.bookings) :
                /\ CandStart < BookingEnd(util.bookings[k])
                /\ BookingStart(util.bookings[k]) < CandEnd)

C8_Witness ==
    /\ util.op = "isTimeSlotAvailable"
    /\ util.hour = 9 /\ util.minute = 30 /\ util.duration = 30
    /\ util.bookings = <<[hour |-> 9, minute |-> 0, duration |-> 60]>>
    /\ util.avail = FALSE

\* The candidate A and the single existing booking B are both on the grid and
\* their intervals do not overlap.
GridPairDisjoint ==
    /\ util.op = "isTimeSlotAvailable"
    /\ Len(util.bookings) = 1
    /\ InGrid(FormatSlot(util.hour, util.minute))
    /\ InGrid(FormatSlot(util.bookings[1].hour, util.bookings[1].minute))
    /\ ~(/\ CandStart < BookingEnd(util.bookings[1])
         /\ BookingStart(util.bookings[1]) < CandEnd)

\* Both directions: A against [B] (the call made) and B against [A].
BothAvailable ==
    /\ util.avail = TRUE
    /\ isTimeSlotAvailable(
           FormatSlot(util.bookings[1].hour, util.bookings[1].minute),
           <<[timeSlot |-> FormatSlot(util.hour, util.minute),
              serviceDuration |-> util.duration]>>,
           util.bookings[1].duration)

\* C9 as stated: any two grid bookings with non-overlapping intervals are
\* available against each other.
C9_Original == GridPairDisjoint => BothAvailable

\* C9 amended: two grid bookings with non-overlapping intervals that both end
\* by closing time (18:00) are available against each other.
C9_DisjointWithinHours ==
    (/\ GridPairDisjoint
     /\ CandEnd <= 18 * 60
     /\ BookingEnd(util.bookings[1]) <= 18 * 60)
        => BothAvailable

C9_Witness ==
    /\ GridPairDisjoint
    /\ util.hour = 9 /\ util.minute = 30 /\ util.duration = 60
    /\ util.bookings = <<[hour |-> 9, minute |-> 0, duration |-> 30]>>
    /\ util.avail = TRUE

\* C10 as stated: with no existing bookings getAvailableTimeSlots returns the
\* full grid for every service duration.
C10_Original ==
    (util.op = "getAvailableTimeSlots" /\ util.bookings = <<>>)
        => util.slots = generateTimeSlots

\* C10 amended: with no existing bookings getAvailableTimeSlots returns the
\* grid slots whose start plus the service duration is not after 18:00, in
\* grid order: the full grid for a duration of at most 30 minutes.
C10_EmptyGivesFittingGrid ==
    (util.op = "getAvailableTimeSlots" /\ util.bookings = <<>>) =>
        /\ \E n \in 0..Len(generateTimeSlots) :
              /\ util.slots = SubSeq(generateTimeSlots, 1, n)
              /\ \A i \in 1..Len(generateTimeSlots) :
                    (i <= n) <=> (9 * 60 + 30 * (i - 1) + util.duration <= 18 * 60)
        /\ (util.duration <= 30 => util.slots = generateTimeSlots)

C10_Witness ==
    /\ util.op = "getAvailableTimeSlots"
    /\ util.bookings = <<>>
    /\ util.duration = 60
    /\ Len(util.slots) = 17

\* The grid slot is available against the bookings of the call.
GridSlotAvailable(slot) ==
    isTimeSlotAvailable(slot, UtilFormatted(util.bookings), util.duration)

\* C11: getAvailableTimeSlots returns exactly the grid slots for which
\* isTimeSlotAvailable is true against all the existing bookings, in ascending
\* grid order without duplicates; when no grid slot is available (a fully
\* booked day) it returns the empty list.
C11_ExactlyAvailableInOrder ==
    util.op = "getAvailableTimeSlots" =>
        /\ \A i \in 1..Len(util.slots) :
              InGrid(util.slots[i]) /\ GridSlotAvailable(util.slots[i])
        /\ \A g \in 1..Len(generateTimeSlots) :
              GridSlotAvailable(generateTimeSlots[g])
                  => \E i \in 1..Len(util.slots) : util.slots[i] = generateTimeSlots[g]
        /\ \A i, j \in 1..Len(util.slots) :
              i < j => MinutesOf(util.slots[i]) < MinutesOf(util.slots[j])
        /\ (\A g \in 1..Len(generateTimeSlots) : ~GridSlotAvailable(generateTimeSlots[g]))
              => util.slots = <<>>

C11_Witness ==
    /\ util.op = "getAvailableTimeSlots"
    /\ util.duration = 30
    /\ util.bookings = <<[hour |-> 9, minute |-> 0, duration |-> 540]>>
    /\ util.slots = <<>>

----------------------------------------------------------------------------
(* routes/appointments: the waitlist reconciler                            *)

\* Appointment.find({ _id: { $ne: excludeId }, date: that day, status: { $nin:
\* [...] } }) mapped to { timeSlot, serviceDuration }, from index k on.
\* excludeId is 0 when the query has no _id condition.
RECURSIVE FormattedFrom(_, _, _, _)
FormattedFrom(appts, day, excludeId, k) ==
    IF k > Len(appts) THEN <<>>
    ELSE (IF appts[k].date = day /\ IsActive(appts[k].status) /\ k # excludeId
          THEN <<[timeSlot |-> appts[k].timeSlot,
                  serviceDuration |-> ServiceDocs[appts[k].serviceId].duration]>>
          ELSE <<>>)
         \o FormattedFrom(appts, day, excludeId, k + 1)

FormattedAppointments(appts, day, excludeId) == FormattedFrom(appts, day, excludeId, 1)

\* WaitingFrom with the entries sorted by createdAt descending.
RECURSIVE WaitingFrom_Descending(_, _, _)
WaitingFrom_Descending(wl, day, k) ==
    IF k > Len(wl) THEN <<>>
    ELSE WaitingFrom_Descending(wl, day, k + 1)
         \o (IF wl[k].date = day /\ wl[k].status = "waiting" THEN <<k>> ELSE <<>>)

\* WaitingFrom without the condition on the date.
RECURSIVE WaitingFrom_AnyDate(_, _, _)
WaitingFrom_AnyDate(wl, day, k) ==
    IF k > Len(wl) THEN <<>>
    ELSE (IF wl[k].status = "waiting" THEN <<k>> ELSE <<>>)
         \o WaitingFrom_AnyDate(wl, day, k + 1)

\* Waitlist.find({ date: that day, status: 'waiting' }).sort({ createdAt: 1 }):
\* the indices of the entries, in creation order, from index k on.
RECURSIVE WaitingFrom(_, _, _)
WaitingFrom(wl, day, k) ==
    IF k > Len(wl) THEN <<>>
    ELSE (IF wl[k].date = day /\ wl[k].status = "waiting" THEN <<k>> ELSE <<>>)
         \o WaitingFrom(wl, day, k + 1)

Includes(seq, x) == \E i \in 1..Len(seq) : seq[i] = x

\* The first preferred slot that is available, else the first available slot.
RECURSIVE FirstPreferred(_, _, _)
FirstPreferred(preferredTimeSlots, availableSlots, default) ==
    IF preferredTimeSlots = <<>> THEN default
    ELSE IF Includes(availableSlots, Head(preferredTimeSlots))
         THEN Head(preferredTimeSlots)
         ELSE FirstPreferred(Tail(preferredTimeSlots), availableSlots, default)

\* SelectedSlot without the loop over the preferred slots.
SelectedSlot_Earliest(entry, availableSlots) == availableSlots[1]

SelectedSlot(entry, availableSlots) ==
    FirstPreferred(entry.preferredTimeSlots, availableSlots, availableSlots[1])

Message(kind, to, date, slot) == [kind |-> kind, to |-> to, date |-> date, slot |-> slot]

\* smsService.sendWaitlistNotificationSMS(entry.userId, entry.serviceId, date,
\* selectedSlot), which the loop does not await.  When client.messages.create
\* rejects, the service catches the error, logs it and resolves to false:
\* delivered tells which of the two happened.
WaitlistMessage(to, serviceId, date, slot) ==
    [kind |-> "waitlistSMS", to |-> to, serviceId |-> serviceId, date |-> date,
     slot |-> slot, delivered |-> twilioUp]

\* The record kept in calls of one run of updateWaitlistForDate: its date,
\* whether it got to load the appointments, the formattedAppointments it
\* handed to getAvailableTimeSlots, and the entries its loop took, in order.
PassLog(date, loaded, formattedAppointments, considered) ==
    [fn |-> "updateWaitlistForDate", date |-> date, loaded |-> loaded,
     existing |-> formattedAppointments, considered |-> considered]

\* The record kept in calls of one call of isTimeSlotAvailable by a handler:
\* the date and the _id: { $ne } condition (0 when there is none) of the query
\* for the existing appointments, and the formattedAppointments handed over.
CheckLog(date, excludeId, formattedAppointments) ==
    [fn |-> "isTimeSlotAvailable", date |-> date, excludeId |-> excludeId,
     existing |-> formattedAppointments]

\* The for loop of updateWaitlistForDate over the entries left; seen are the
\* entries already taken.  Reading entry.userId.preferences of an entry whose
\* user document is gone throws, after the entry was saved; the catch of
\* updateWaitlistForDate ends the pass.
RECURSIVE WaitlistLoop(_, _, _, _, _, _)
WaitlistLoop(wl, out, seen, entries, formattedAppointments, date) ==
    IF entries = <<>> THEN [waitlist |-> wl, outbox |-> out, considered |-> seen]
    ELSE LET i == Head(entries)
             entry == wl[i]
             availableSlots ==
                 getAvailableTimeSlots(date, formattedAppointments,
                                       ServiceDocs[entry.serviceId].duration)
             saved == [wl EXCEPT ![i].status = "notified", ![i].notifiedAt = TRUE]
         IN IF Len(availableSlots) > 0
            THEN IF entry.userId \notin DOMAIN UserDocs
                 THEN [waitlist |-> saved, outbox |-> out,
                       considered |-> Append(seen, i)]
                 ELSE WaitlistLoop(
                          saved,
                          IF UserDocs[entry.userId].smsNotifications
                          THEN Append(out, WaitlistMessage(
                                               entry.userId, entry.serviceId, date,
                                               SelectedSlot(entry, availableSlots)))
                          ELSE out,
                          Append(seen, i), Tail(entries), formattedAppointments, date)
            ELSE WaitlistLoop(wl, out, Append(seen, i), Tail(entries),
                              formattedAppointments, date)

\* updateWaitlistForDate(date) on the waitlist wl and the appointments appts:
\* the waitlist after the pass, the notifications dispatched and the log.
updateWaitlistForDate(wl, appts, date) ==
    LET waitlistEntries == WaitingFrom(wl, date, 1)
        formattedAppointments == FormattedAppointments(appts, date, 0)
    IN IF Len(waitlistEntries) = 0
       THEN [waitlist |-> wl, outbox |-> <<>>, log |-> PassLog(date, FALSE, <<>>, <<>>)]
       ELSE LET loop == WaitlistLoop(wl, <<>>, <<>>, waitlistEntries,
                                     formattedAppointments, date)
            IN [waitlist |-> loop.waitlist, outbox |-> loop.outbox,
                log |-> PassLog(date, TRUE, formattedAppointments, loop.considered)]

----------------------------------------------------------------------------
(* routes/appointments: the request handlers                               *)

MaxAppts == 2

MaxWaitlist == 2

\* What a handler leaves behind: the response status, the collections, the
\* notifications dispatched and the log of its calls.
Result(code, appts, points, wl, out, log) ==
    [code |-> code, appointments |-> appts, loyaltyPoints |-> points,
     waitlist |-> wl, outbox |-> out, calls |-> log]

\* A response sent before any write.
Rejected(code) == Result(code, appointments, loyaltyPoints, waitlist, <<>>, <<>>)

\* Unavailable with the waitlist pass for the date run before the 400 is sent
\* (as from a finally block).
Unavailable_RunsPass(check) ==
    LET pass == updateWaitlistForDate(waitlist, appointments, check.date)
    IN Result(400, appointments, loyaltyPoints, pass.waitlist, pass.outbox,
              <<check, pass.log>>)

\* The 400 of a slot that isTimeSlotAvailable refused.
Unavailable(check) ==
    Result(400, appointments, loyaltyPoints, waitlist, <<>>, <<check>>)

\* The handler's call of isTimeSlotAvailable put before the calls of its
\* follow-up.
AfterCheck(check, result) == [result EXCEPT !.calls = <<check>> \o @]

\* emailService.sendAppointmentConfirmation / smsService.
\* sendAppointmentConfirmationSMS according to the user's preferences.
Confirmations(userId, date, timeSlot) ==
    (IF UserDocs[userId].emailNotifications
     THEN <<Message("confirmationEmail", userId, date, timeSlot)>> ELSE <<>>)
    \o (IF UserDocs[userId].smsNotifications
        THEN <<Message("confirmationSMS", userId, date, timeSlot)>> ELSE <<>>)

\* bookingUserId of POST /: an admin may book for another user.
BookingUserId(reqUser, userId) ==
    IF reqUser.role = "admin" /\ userId # "" THEN userId ELSE reqUser.id

\* POST /, up to the availability query: the status of the rejection, 0 if
\* none.  A serviceId or userId that is no ObjectId makes findById throw, and
\* the catch answers 500.
PostReject(reqUser, serviceId, date, timeSlot, userId) ==
    IF serviceId = "" \/ date = "" \/ timeSlot = <<>> THEN 400
    ELSE IF ~IsObjectId(serviceId) THEN 500
    ELSE IF serviceId \notin DOMAIN ServiceDocs THEN 404
    ELSE IF reqUser.role = "admin" /\ userId # "" /\ ~IsObjectId(userId) THEN 500
    ELSE IF reqUser.role = "admin" /\ userId # "" /\ userId \notin DOMAIN UserDocs THEN 404
    ELSE IF ~ParseDate(date).valid THEN 400
    ELSE IF ParseDate(date).day < Today THEN 400
    ELSE 0

\* new Appointment({ userId, serviceId, date, timeSlot }).save()
SaveNew(appts, bookingUserId, serviceId, day, timeSlot) ==
    Append(appts, [userId |-> bookingUserId, serviceId |-> serviceId, date |-> day,
                   timeSlot |-> timeSlot, status |-> DefaultStatus])

\* PostFollowUp with the new appointment deleted again when the user lookup
\* fails.
PostFollowUp_Rollback(saved, points, wl, bookingUserId, serviceId, day, timeSlot) ==
    LET earned == ServiceDocs[serviceId].loyaltyPointsEarned
        points2 == IF earned > 0 /\ bookingUserId \in DOMAIN points
                   THEN [points EXCEPT ![bookingUserId] = @ + earned]
                   ELSE points
    IN IF bookingUserId \notin DOMAIN UserDocs
       THEN Result(500, SubSeq(saved, 1, Len(saved) - 1), points2, wl, <<>>, <<>>)
       ELSE LET pass == updateWaitlistForDate(wl, saved, day)
            IN Result(200, saved, points2, pass.waitlist,
                      Confirmations(bookingUserId, day, timeSlot) \o pass.outbox,
                      <<pass.log>>)

\* POST / after the save: loyalty points, confirmation, waitlist pass.
\* User.findById of a missing user gives null and user.preferences throws:
\* the catch answers 500 with the appointment already saved.
PostFollowUp(saved, points, wl, bookingUserId, serviceId, day, timeSlot) ==
    LET earned == ServiceDocs[serviceId].loyaltyPointsEarned
        points2 == IF earned > 0 /\ bookingUserId \in DOMAIN points
                   THEN [points EXCEPT ![bookingUserId] = @ + earned]
                   ELSE points
    IN IF bookingUserId \notin DOMAIN UserDocs
       THEN Result(500, saved, points2, wl, <<>>, <<>>)
       ELSE LET pass == updateWaitlistForDate(wl, saved, day)
            IN Result(200, saved, points2, pass.waitlist,
                      Confirmations(bookingUserId, day, timeSlot) \o pass.outbox,
                      <<pass.log>>)

\* The handler of POST /.
PostAppointment(reqUser, serviceId, date, timeSlot, userId) ==
    LET rejection == PostReject(reqUser, serviceId, date, timeSlot, userId)
        bookingUserId == BookingUserId(reqUser, userId)
        day == ParseDate(date).day
        formattedAppointments == FormattedAppointments(appointments, day, 0)
    IN IF rejection # 0 THEN Rejected(rejection)
       ELSE IF ~isTimeSlotAvailable(timeSlot, formattedAppointments,
                                    ServiceDocs[serviceId].duration)
       THEN Unavailable(CheckLog(day, 0, formattedAppointments))
       ELSE AfterCheck(CheckLog(day, 0, formattedAppointments),
                PostFollowUp(SaveNew(appointments, bookingUserId, serviceId, day, timeSlot),
                             loyaltyPoints, waitlist, bookingUserId, serviceId, day,
                             timeSlot))

\* if (appointment.userId.toString() !== req.user.id && req.user.role !== 'admin')
NotAuthorized(appointment, reqUser) ==
    appointment.userId # reqUser.id /\ reqUser.role # "admin"

\* The handler of PUT /:id.
PutAppointment(reqUser, id, status) ==
    IF status \notin StatusEnum THEN Rejected(400)
    ELSE IF id \notin 1..Len(appointments) THEN Rejected(404)
    ELSE IF NotAuthorized(appointments[id], reqUser) THEN Rejected(403)
    ELSE LET saved == [appointments EXCEPT ![id].status = status]
         IN IF status = "cancelled"
            THEN LET pass == updateWaitlistForDate(waitlist, saved, saved[id].date)
                 IN Result(200, saved, loyaltyPoints, pass.waitlist, pass.outbox,
                           <<pass.log>>)
            ELSE Result(200, saved, loyaltyPoints, waitlist, <<>>, <<>>)

\* PUT /:id/reschedule, up to the availability query: the status of the
\* rejection, 0 if none.
RescheduleReject(reqUser, id, date, timeSlot) ==
    IF date = "" \/ timeSlot = <<>> THEN 400
    ELSE IF id \notin 1..Len(appointments) THEN 404
    ELSE IF NotAuthorized(appointments[id], reqUser) THEN 403
    ELSE IF ~ParseDate(date).valid THEN 400
    ELSE IF ParseDate(date).day < Today THEN 400
    ELSE 0

\* appointment.date = requestedDate; appointment.timeSlot = timeSlot; save()
SaveMoved(appts, id, day, timeSlot) ==
    [appts EXCEPT ![id].date = day, ![id].timeSlot = timeSlot]

\* PUT /:id/reschedule after the save: confirmation, then a waitlist pass for
\* the old date and one for the new date.  userId, day and timeSlot are those
\* of the document the handler holds.
RescheduleFollowUp(saved, wl, userId, day, timeSlot, oldDate) ==
    IF userId \notin DOMAIN UserDocs
    THEN Result(500, saved, loyaltyPoints, wl, <<>>, <<>>)
    ELSE LET passOld == updateWaitlistForDate(wl, saved, oldDate)
             passNew == updateWaitlistForDate(passOld.waitlist, saved, day)
         IN Result(200, saved, loyaltyPoints, passNew.waitlist,
                   Confirmations(userId, day, timeSlot)
                       \o passOld.outbox \o passNew.outbox,
                   <<passOld.log, passNew.log>>)

\* The handler of PUT /:id/reschedule.
RescheduleAppointment(reqUser, id, date, timeSlot) ==
    LET rejection == RescheduleReject(reqUser, id, date, timeSlot)
        day == ParseDate(date).day
        formattedAppointments == FormattedAppointments(appointments, day, id)
    IN IF rejection # 0 THEN Rejected(rejection)
       ELSE IF ~isTimeSlotAvailable(timeSlot, formattedAppointments,
                                    ServiceDocs[appointments[id].serviceId].duration)
       THEN Unavailable(CheckLog(day, id, formattedAppointments))
       ELSE AfterCheck(CheckLog(day, id, formattedAppointments),
                RescheduleFollowUp(SaveMoved(appointments, id, day, timeSlot), waitlist,
                                   appointments[id].userId, day, timeSlot,
                                   appointments[id].date))

\* DeleteAppointment removing the document (deleteOne) instead of setting its
\* status.
DeleteAppointment_Remove(reqUser, id) ==
    IF id \notin 1..Len(appointments) THEN Rejected(404)
    ELSE IF NotAuthorized(appointments[id], reqUser) THEN Rejected(403)
    ELSE IF appointments[id].date <= Today THEN Rejected(400)
    ELSE LET saved == SubSeq(appointments, 1, id - 1)
                          \o SubSeq(appointments, id + 1, Len(appointments))
             pass == updateWaitlistForDate(waitlist, saved, appointments[id].date)
         IN Result(200, saved, loyaltyPoints, pass.waitlist, pass.outbox, <<pass.log>>)

\* The handler of DELETE /:id.  new Date(appointment.date) < new Date(): the
\* stored date is the midnight that starts its day, so the appointments of
\* today and of earlier days are past.
DeleteAppointment(reqUser, id) ==
    IF id \notin 1..Len(appointments) THEN Rejected(404)
    ELSE IF NotAuthorized(appointments[id], reqUser) THEN Rejected(403)
    ELSE IF appointments[id].date <= Today THEN Rejected(400)
    ELSE LET saved == [appointments EXCEPT ![id].status = "cancelled"]
             pass == updateWaitlistForDate(waitlist, saved, saved[id].date)
         IN Result(200, saved, loyaltyPoints, pass.waitlist, pass.outbox, <<pass.log>>)

\* PostWaitlist as an upsert: an entry the user already has for the date and
\* service, whatever its status, is put back to waiting.
PostWaitlist_Requeue(reqUser, date, serviceId, preferredTimeSlots) ==
    IF date = "" \/ serviceId = "" THEN Rejected(400)
    ELSE IF ~ParseDate(date).valid THEN Rejected(400)
    ELSE IF ParseDate(date).day < Today THEN Rejected(400)
    ELSE IF ~IsObjectId(serviceId) THEN Rejected(500)
    ELSE IF serviceId \notin DOMAIN ServiceDocs THEN Rejected(404)
    ELSE IF \E k \in 1..Len(waitlist) :
                /\ waitlist[k].userId = reqUser.id
                /\ waitlist[k].serviceId = serviceId
                /\ waitlist[k].date = ParseDate(date).day
    THEN Result(200, appointments, loyaltyPoints,
                [k \in 1..Len(waitlist) |->
                    IF /\ waitlist[k].userId = reqUser.id
                       /\ waitlist[k].serviceId = serviceId
                       /\ waitlist[k].date = ParseDate(date).day
                    THEN [waitlist[k] EXCEPT !.status = "waiting"]
                    ELSE waitlist[k]],
                <<>>, <<>>)
    ELSE Result(200, appointments, loyaltyPoints,
                Append(waitlist,
                       [userId |-> reqUser.id, serviceId |-> serviceId,
                        date |-> ParseDate(date).day,
                        preferredTimeSlots |-> preferredTimeSlots,
                        status |-> "waiting", notifiedAt |-> FALSE]),
                <<>>, <<>>)

\* The handler of POST /waitlist.
PostWaitlist(reqUser, date, serviceId, preferredTimeSlots) ==
    IF date = "" \/ serviceId = "" THEN Rejected(400)
    ELSE IF ~ParseDate(date).valid THEN Rejected(400)
    ELSE IF ParseDate(date).day < Today THEN Rejected(400)
    ELSE IF ~IsObjectId(serviceId) THEN Rejected(500)
    ELSE IF serviceId \notin DOMAIN ServiceDocs THEN Rejected(404)
    ELSE IF \E k \in 1..Len(waitlist) :
                /\ waitlist[k].userId = reqUser.id
                /\ waitlist[k].serviceId = serviceId
                /\ waitlist[k].date = ParseDate(date).day
                /\ waitlist[k].status = "waiting"
    THEN Rejected(400)
    ELSE Result(200, appointments, loyaltyPoints,
                Append(waitlist,
                       [userId |-> reqUser.id, serviceId |-> serviceId,
                        date |-> ParseDate(date).day,
                        preferredTimeSlots |-> preferredTimeSlots,
                        status |-> "waiting", notifiedAt |-> FALSE]),
                <<>>, <<>>)

\* One request handled from arrival to response: result is the outcome of
\* its handler.
Respond(op, result) ==
    \E r \in {result} :
        /\ appointments' = r.appointments
        /\ loyaltyPoints' = r.loyaltyPoints
        /\ waitlist' = r.waitlist
        /\ outbox' = r.outbox
        /\ response' = [op |-> op, code |-> r.code]
        /\ calls' = r.calls
        /\ UNCHANGED <<util, reqs, http, twilioUp>>

CreateAppointment(reqUser, serviceId, date, timeSlot, userId) ==
    /\ Len(appointments) < MaxAppts
    /\ Respond("create", PostAppointment(reqUser, serviceId, date, timeSlot, userId))

UpdateAppointment(reqUser, id, status) ==
    Respond("update", PutAppointment(reqUser, id, status))

Reschedule(reqUser, id, date, timeSlot) ==
    Respond("reschedule", RescheduleAppointment(reqUser, id, date, timeSlot))

CancelAppointment(reqUser, id) ==
    Respond("cancel", DeleteAppointment(reqUser, id))

JoinWaitlist(reqUser, date, serviceId, preferredTimeSlots) ==
    /\ Len(waitlist) < MaxWaitlist
    /\ Respond("waitlist", PostWaitlist(reqUser, date, serviceId, preferredTimeSlots))

----------------------------------------------------------------------------
(* Sequentially executed appointment operations                            *)

T0900 == <<"0", "9", ":", "0", "0">>

T0915 == <<"0", "9", ":", "1", "5">>

T0930 == <<"0", "9", ":", "3", "0">>

T1000 == <<"1", "0", ":", "0", "0">>

T1030 == <<"1", "0", ":", "3", "0">>

T1730 == <<"1", "7", ":", "3", "0">>

\* The inputs of the requests: one user, two services, two working days
\* (Monday 8 and Tuesday 9 January), two grid slots and one off-grid slot.
ApptUsers == {"u1"}

ApptServices == {"s30", "s60"}

ApptDates == {"2024-01-08", "2024-01-09"}

ApptSlots == {T0900, T0915, T0930}

Init ==
    /\ util = UtilIdle
    /\ appointments = <<>>
    /\ waitlist = <<>>
    /\ loyaltyPoints = [u \in DOMAIN UserDocs |-> 0]
    /\ outbox = <<>>
    /\ response = [op |-> "none", code |-> 0]
    /\ reqs = <<>>
    /\ http = [stage |-> "idle"]
    /\ calls = <<>>
    /\ twilioUp = TRUE

NextCreate ==
    \E u \in ApptUsers, s \in ApptServices, d \in ApptDates, t \in ApptSlots :
        CreateAppointment(ReqUser(u), s, d, t, "")

NextUpdate ==
    \E u \in ApptUsers, id \in 1..MaxAppts, st \in StatusEnum :
        UpdateAppointment(ReqUser(u), id, st)

NextReschedule ==
    \E u \in ApptUsers, id \in 1..MaxAppts, d \in ApptDates, t \in ApptSlots :
        Reschedule(ReqUser(u), id, d, t)

NextCancel ==
    \E u \in ApptUsers, id \in 1..MaxAppts : CancelAppointment(ReqUser(u), id)

Next ==
    \/ NextCreate
    \/ NextUpdate
    \/ NextReschedule
    \/ NextCancel

Spec == Init /\ [][Next]_vars

----------------------------------------------------------------------------
(* Concurrent booking requests: POST / and PUT /:id/reschedule advance in   *)
(* steps, one per awaited query, and the steps of different requests       *)
(* interleave                                                              *)

MaxReqs == 2

IdleReq ==
    [pc |-> "idle", kind |-> "none", userId |-> "", serviceId |-> "", id |-> 0,
     day |-> 0, oldDate |-> 0, timeSlot |-> <<>>, existing |-> <<>>]

\* Appointment documents that requests in flight are about to create.
PendingCreates ==
    Cardinality({r \in DOMAIN reqs :
                    reqs[r].kind = "create" /\ reqs[r].pc \in {"read", "check", "save"}})

\* POST / from arrival to the last check before the availability query.
StartCreate(r, reqUser, serviceId, date, timeSlot, userId) ==
    /\ reqs[r].pc = "idle"
    /\ Len(appointments) + PendingCreates < MaxAppts
    /\ LET rejection == PostReject(reqUser, serviceId, date, timeSlot, userId)
       IN IF rejection # 0
          THEN /\ response' = [op |-> "create", code |-> rejection]
               /\ outbox' = <<>>
               /\ UNCHANGED reqs
          ELSE /\ reqs' = [reqs EXCEPT ![r] =
                             [pc |-> "read", kind |-> "create",
                              userId |-> BookingUserId(reqUser, userId),
                              serviceId |-> serviceId, id |-> 0,
                              day |-> ParseDate(date).day, oldDate |-> 0,
                              timeSlot |-> timeSlot, existing |-> <<>>]]
               /\ UNCHANGED <<response, outbox>>
    /\ UNCHANGED <<util, appointments, waitlist, loyaltyPoints, http, calls, twilioUp>>

\* PUT /:id/reschedule from arrival to the last check before the availability
\* query; the handler keeps the document it loaded.
StartReschedule(r, reqUser, id, date, timeSlot) ==
    /\ reqs[r].pc = "idle"
    /\ LET rejection == RescheduleReject(reqUser, id, date, timeSlot)
       IN IF rejection # 0
          THEN /\ response' = [op |-> "reschedule", code |-> rejection]
               /\ outbox' = <<>>
               /\ UNCHANGED reqs
          ELSE /\ reqs' = [reqs EXCEPT ![r] =
                             [pc |-> "read", kind |-> "reschedule",
                              userId |-> appointments[id].userId,
                              serviceId |-> appointments[id].serviceId, id |-> id,
                              day |-> ParseDate(date).day,
                              oldDate |-> appointments[id].date,
                              timeSlot |-> timeSlot, existing |-> <<>>]]
               /\ UNCHANGED <<response, outbox>>
    /\ UNCHANGED <<util, appointments, waitlist, loyaltyPoints, http, calls, twilioUp>>

\* await Appointment.find(...).populate('serviceId')
ReadExisting(r) ==
    /\ reqs[r].pc = "read"
    /\ reqs' = [reqs EXCEPT ![r].pc = "check",
                            ![r].existing =
                                FormattedAppointments(appointments, reqs[r].day, reqs[r].id)]
    /\ UNCHANGED <<util, appointments, waitlist, loyaltyPoints, outbox, response, http, calls, twilioUp>>

\* CheckAvailability with no response sent for a slot that is refused: the
\* handler returns and the request stays open.
CheckAvailability_NoAnswer(r) ==
    /\ reqs[r].pc = "check"
    /\ IF isTimeSlotAvailable(reqs[r].timeSlot, reqs[r].existing,
                              ServiceDocs[reqs[r].serviceId].duration)
       THEN reqs' = [reqs EXCEPT ![r].pc = "save"]
       ELSE reqs' = [reqs EXCEPT ![r].pc = "returned"]
    /\ UNCHANGED <<response, outbox>>
    /\ UNCHANGED <<util, appointments, waitlist, loyaltyPoints, http, calls, twilioUp>>

\* scheduleUtils.isTimeSlotAvailable on the bookings read, and the 400 answer.
CheckAvailability(r) ==
    /\ reqs[r].pc = "check"
    /\ IF isTimeSlotAvailable(reqs[r].timeSlot, reqs[r].existing,
                              ServiceDocs[reqs[r].serviceId].duration)
       THEN /\ reqs' = [reqs EXCEPT ![r].pc = "save"]
            /\ UNCHANGED <<response, outbox>>
       ELSE /\ reqs' = [reqs EXCEPT ![r] = IdleReq]
            /\ response' = [op |-> reqs[r].kind, code |-> 400]
            /\ outbox' = <<>>
    /\ UNCHANGED <<util, appointments, waitlist, loyaltyPoints, http, calls, twilioUp>>

\* await newAppointment.save() / await appointment.save()
Save(r) ==
    /\ reqs[r].pc = "save"
    /\ IF reqs[r].kind = "create"
       THEN /\ appointments' = SaveNew(appointments, reqs[r].userId, reqs[r].serviceId,
                                       reqs[r].day, reqs[r].timeSlot)
            /\ reqs' = [reqs EXCEPT ![r].pc = "saved", ![r].id = Len(appointments) + 1]
       ELSE /\ appointments' = SaveMoved(appointments, reqs[r].id, reqs[r].day,
                                         reqs[r].timeSlot)
            /\ reqs' = [reqs EXCEPT ![r].pc = "saved"]
    /\ UNCHANGED <<util, waitlist, loyaltyPoints, outbox, response, http, calls, twilioUp>>

\* The rest of the handler after the save, and the response.
Complete(r) ==
    /\ reqs[r].pc = "saved"
    /\ \E res \in {IF reqs[r].kind = "create"
                     THEN PostFollowUp(appointments, loyaltyPoints, waitlist, reqs[r].userId,
                                       reqs[r].serviceId, reqs[r].day, reqs[r].timeSlot)
                     ELSE RescheduleFollowUp(appointments, waitlist, reqs[r].userId,
                                             reqs[r].day, reqs[r].timeSlot, reqs[r].oldDate)} :
          /\ loyaltyPoints' = res.loyaltyPoints
          /\ waitlist' = res.waitlist
          /\ outbox' = res.outbox
          /\ response' = [op |-> reqs[r].kind, code |-> res.code]
          /\ calls' = res.calls
    /\ reqs' = [reqs EXCEPT ![r] = IdleReq]
    /\ UNCHANGED <<util, appointments, http, twilioUp>>

ConcServices == {"s30", "s60"}

ConcDates == {"2024-01-08"}

ConcSlots == {T0900, T0930}

InitConc ==
    /\ util = UtilIdle
    /\ appointments = <<>>
    /\ waitlist = <<>>
    /\ loyaltyPoints = [u \in DOMAIN UserDocs |-> 0]
    /\ outbox = <<>>
    /\ response = [op |-> "none", code |-> 0]
    /\ reqs = [r \in 1..MaxReqs |-> IdleReq]
    /\ http = [stage |-> "idle"]
    /\ calls = <<>>
    /\ twilioUp = TRUE

NextStartCreate ==
    \E r \in 1..MaxReqs, s \in ConcServices, d \in ConcDates, t \in ConcSlots :
        StartCreate(r, ReqUser("u1"), s, d, t, "")

NextStartReschedule ==
    \E r \in 1..MaxReqs, id \in 1..MaxAppts, d \in ConcDates, t \in ConcSlots :
        StartReschedule(r, ReqUser("u1"), id, d, t)

NextReadExisting == \E r \in 1..MaxReqs : ReadExisting(r)

NextCheckAvailability == \E r \in 1..MaxReqs : CheckAvailability(r)

NextSave == \E r \in 1..MaxReqs : Save(r)

NextComplete == \E r \in 1..MaxReqs : Complete(r)

NextConc ==
    \/ NextStartCreate
    \/ NextStartReschedule
    \/ NextReadExisting
    \/ NextCheckAvailability
    \/ NextSave
    \/ NextComplete

SpecConc == InitConc /\ [][NextConc]_vars

----------------------------------------------------------------------------
(* Properties of the appointment operations                                *)

\* The BookingInterval [timeSlot, timeSlot + service duration) of a stored
\* appointment whose timeSlot is a well-formed "HH:MM".
ApptStart(a) == MinutesOf(a.timeSlot)

ApptEnd(a) == ApptStart(a) + ServiceDocs[a.serviceId].duration

\* Two stored appointments are both active, on the same date, and overlap.
DoubleBooked(a, b) ==
    /\ IsActive(a.status) /\ IsActive(b.status)
    /\ a.date = b.date
    /\ ApptStart(a) < ApptEnd(b)
    /\ ApptStart(b) < ApptEnd(a)

\* C1: after any sequence of sequentially executed appointment operations no
\* two appointments of the same date that are neither cancelled nor no-show
\* have overlapping BookingIntervals.
C1_Original ==
    \A i, j \in 1..Len(appointments) :
        i < j => ~DoubleBooked(appointments[i], appointments[j])

\* C2: of two booking requests in flight at the same time for overlapping
\* intervals on the same date, at most one gets to write an active
\* appointment: never have both passed their save.
C2_Original ==
    \A r1, r2 \in DOMAIN reqs :
        (/\ r1 # r2
         /\ reqs[r1].pc = "saved" /\ reqs[r2].pc = "saved"
         /\ reqs[r1].id # reqs[r2].id)
            => ~DoubleBooked(appointments[reqs[r1].id], appointments[reqs[r2].id])

\* C3: every timeSlot stored on an appointment is a slot of the grid returned
\* by generateTimeSlots.
C3_Original == \A i \in 1..Len(appointments) : InGrid(appointments[i].timeSlot)

----------------------------------------------------------------------------
(* Appointment operations with a waitlist: users join the waitlist of a    *)
(* date, and every create, status update, reschedule and cancellation runs *)
(* its waitlist passes before it responds                                  *)

\* The bookings made: u1 books 10:00, and g1, whose User document is gone,
\* books 09:00, both for 30 minutes.
WaitCreates ==
    {[user |-> "u1", serviceId |-> "s30", timeSlot |-> T1000],
     [user |-> "g1", serviceId |-> "s30", timeSlot |-> T0900]}

WaitCreateDates == {"2024-01-08"}

WaitStatuses == {"cancelled", "no-show"}

WaitMoves ==
    {[date |-> "2024-01-08", timeSlot |-> T0900],
     [date |-> "2024-01-09", timeSlot |-> T0900]}

WaitJoins ==
    {[user |-> "u1", serviceId |-> "s30", preferredTimeSlots |-> <<T1000, T1030>>],
     [user |-> "g1", serviceId |-> "s30", preferredTimeSlots |-> <<>>]}

WaitJoinDates == {"2024-01-08"}

NextWaitCreate ==
    \E c \in WaitCreates, d \in WaitCreateDates :
        CreateAppointment(ReqUser(c.user), c.serviceId, d, c.timeSlot, "")

NextWaitUpdate ==
    \E id \in 1..MaxAppts, st \in WaitStatuses : UpdateAppointment(ReqUser("a1"), id, st)

NextWaitReschedule ==
    \E id \in 1..MaxAppts, m \in WaitMoves :
        Reschedule(ReqUser("a1"), id, m.date, m.timeSlot)

NextWaitCancel == \E id \in 1..MaxAppts : CancelAppointment(ReqUser("a1"), id)

NextWaitJoin ==
    \E j \in WaitJoins, d \in WaitJoinDates :
        JoinWaitlist(ReqUser(j.user), d, j.serviceId, j.preferredTimeSlots)

NextWait ==
    \/ NextWaitCreate
    \/ NextWaitUpdate
    \/ NextWaitReschedule
    \/ NextWaitCancel
    \/ NextWaitJoin

SpecWait == Init /\ [][NextWait]_vars

----------------------------------------------------------------------------
(* Properties of the appointment operations with a waitlist               *)

\* The appointments of a date whose status is neither cancelled nor no-show.
ActiveIds(appts, day) ==
    {k \in 1..Len(appts) :
        /\ appts[k].date = day
        /\ appts[k].status # "cancelled"
        /\ appts[k].status # "no-show"}

\* The bookings handed to the checker are exactly the appointments ids of
\* appts, each with its timeSlot and the duration of its service.
Booked(existing, appts, ids) ==
    /\ Len(existing) = Cardinality(ids)
    /\ \A k \in ids :
          existing[Cardinality({j \in ids : j <= k})] =
              [timeSlot |-> appts[k].timeSlot,
               serviceDuration |-> ServiceDocs[appts[k].serviceId].duration]

\* A call of the log got exactly the active appointments of its date: those
\* before the handler's write for its availability check, those after the
\* write for a waitlist pass.
CallGotAllActive(call, before, after) ==
    IF call.fn = "isTimeSlotAvailable"
    THEN Booked(call.existing, before, ActiveIds(before, call.date))
    ELSE call.loaded => Booked(call.existing, after, ActiveIds(after, call.date))

\* C12 as stated: at every availability decision the existing bookings passed
\* to the checker are exactly the appointments of that date that are neither
\* cancelled nor no-show.
C12_Original ==
    [][\A c \in 1..Len(calls') : CallGotAllActive(calls'[c], appointments, appointments')]_vars

\* As CallGotAllActive, but the check of a reschedule leaves out the
\* appointment being rescheduled.
CallGotActiveButMoved(call, before, after) ==
    IF call.fn = "isTimeSlotAvailable"
    THEN /\ Booked(call.existing, before, ActiveIds(before, call.date) \ {call.excludeId})
         /\ call.excludeId # 0 =>
               /\ response'.op = "reschedule"
               /\ response'.code = 200 =>
                     /\ after[call.excludeId].date = call.date
                     /\ \A k \in 1..Len(after) : k # call.excludeId => after[k] = before[k]
    ELSE call.loaded => Booked(call.existing, after, ActiveIds(after, call.date))

\* C12 amended: at every availability decision (create, reschedule, waitlist
\* pass) the existing bookings passed to the checker are exactly the
\* appointments of that date that are neither cancelled nor no-show, except
\* that a reschedule also leaves out the appointment it moves; so a cancelled
\* or no-show appointment never blocks a candidate slot.
C12_ActiveOnlyExceptMoved ==
    [][\A c \in 1..Len(calls') :
          CallGotActiveButMoved(calls'[c], appointments, appointments')]_vars

\* A booking accepted on the slot of a no-show appointment of the same date.
C12_Witness ==
    /\ response = [op |-> "create", code |-> 200]
    /\ Len(appointments) = 2
    /\ appointments[1].status = "no-show"
    /\ appointments[2].date = appointments[1].date
    /\ appointments[2].timeSlot = appointments[1].timeSlot
    /\ calls[1].fn = "isTimeSlotAvailable"
    /\ calls[1].existing = <<>>

\* C17: the run that follows the creation of a booking, which frees no
\* capacity, is a no-op: it changes no waitlist entry and sends no waitlist
\* notification.
C17_Original ==
    [][(response'.op = "create" /\ response'.code = 200) =>
          /\ waitlist' = waitlist
          /\ \A m \in 1..Len(outbox') : outbox'[m].kind # "waitlistSMS"]_vars

\* The status changes the WaitlistEntry state machine allows.
WaitlistTransitions ==
    {<<"waiting", "notified">>, <<"notified", "booked">>,
     <<"waiting", "expired">>, <<"notified", "expired">>}

\* C19: over any sequence of operations no waitlist record is removed or
\* replaced, and the status of an entry either stays or changes along
\* waiting -> notified, notified -> booked, waiting -> expired or notified ->
\* expired (so booked and expired are final and no entry returns to waiting).
C19_StatusOnlyForward ==
    [][/\ Len(waitlist') >= Len(waitlist)
       /\ \A k \in 1..Len(waitlist) :
             /\ waitlist'[k].userId = waitlist[k].userId
             /\ waitlist'[k].serviceId = waitlist[k].serviceId
             /\ waitlist'[k].date = waitlist[k].date
             /\ waitlist'[k].preferredTimeSlots = waitlist[k].preferredTimeSlots
             /\ \/ waitlist'[k].status = waitlist[k].status
                \/ <<waitlist[k].status, waitlist'[k].status>> \in WaitlistTransitions]_vars

\* A user was notified and has joined the waitlist of the same date again:
\* the notified entry is still there, next to the new waiting one.
C19_Witness ==
    /\ Len(waitlist) = 2
    /\ waitlist[1].status = "notified" /\ waitlist[1].notifiedAt = TRUE
    /\ waitlist[2].status = "waiting"
    /\ waitlist[2].userId = waitlist[1].userId

\* The request of the step ran updateWaitlistForDate for the day.
RanPassFor(day) ==
    \E c \in 1..Len(calls') :
        calls'[c].fn = "updateWaitlistForDate" /\ calls'[c].date = day

\* C20: a request whose write cancels an active appointment (DELETE or status
\* update), or moves an active appointment to another date, runs
\* updateWaitlistForDate for the date that lost the appointment before it
\* responds; a reschedule runs it once for the old and once for the new date.
C20_Original ==
    [][/\ \A id \in 1..Len(appointments) :
             /\ (/\ IsActive(appointments[id].status)
                 /\ appointments'[id].status = "cancelled")
                   => RanPassFor(appointments[id].date)
             /\ (/\ IsActive(appointments[id].status)
                 /\ appointments'[id].date # appointments[id].date)
                   => /\ RanPassFor(appointments[id].date)
                      /\ RanPassFor(appointments'[id].date)
       /\ (response'.op = "reschedule" /\ response'.code = 200) =>
             /\ Len(calls') = 3
             /\ calls'[2].fn = "updateWaitlistForDate"
             /\ calls'[2].date = appointments[calls'[1].excludeId].date
             /\ calls'[3].fn = "updateWaitlistForDate"
             /\ calls'[3].date = appointments'[calls'[1].excludeId].date]_vars

C28_Original ==
    [][(response'.op = "reschedule" /\ calls' # <<>>) =>
         LET id == calls'[1].excludeId
             day == calls'[1].date
         IN /\ id \in 1..Len(appointments)
            /\ Booked(calls'[1].existing, appointments,
                      ActiveIds(appointments, day) \ {id})
            /\ response'.code = 400 => appointments' = appointments
            /\ response'.code # 400 =>
                  /\ response'.code = 200
                  /\ appointments'[id] =
                         [appointments[id] EXCEPT !.date = day,
                                                  !.timeSlot = appointments'[id].timeSlot]
                  /\ \A k \in 1..Len(appointments) :
                        k # id =>
                           /\ appointments'[k] = appointments[k]
                           /\ IsActive(appointments'[id].status)
                                 => ~DoubleBooked(appointments'[id], appointments[k])]_vars

----------------------------------------------------------------------------
(* Runs of updateWaitlistForDate on bounded contents of the data store     *)

\* Appointments of Monday 8 January: 09:30 for 510 minutes (up to closing
\* time), 10:00 and 09:00 for 30 minutes, and 09:00 cancelled.
PassAppointmentDocs ==
    {[userId |-> "u1", serviceId |-> "s510", date |-> 8, timeSlot |-> T0930,
      status |-> "pending"],
     [userId |-> "u1", serviceId |-> "s30", date |-> 8, timeSlot |-> T1000,
      status |-> "pending"],
     [userId |-> "u1", serviceId |-> "s30", date |-> 8, timeSlot |-> T0900,
      status |-> "pending"],
     [userId |-> "u1", serviceId |-> "s30", date |-> 8, timeSlot |-> T0900,
      status |-> "cancelled"]}

\* Waiting entries as POST /waitlist saves them.  g1 joined before its User
\* document was deleted.
PassWaitlistDocs ==
    {[userId |-> "u1", serviceId |-> "s30", date |-> 8,
      preferredTimeSlots |-> <<T1000, T1030>>, status |-> "waiting", notifiedAt |-> FALSE],
     [userId |-> "a1", serviceId |-> "s30", date |-> 8,
      preferredTimeSlots |-> <<>>, status |-> "waiting", notifiedAt |-> FALSE],
     [userId |-> "g1", serviceId |-> "s30", date |-> 8,
      preferredTimeSlots |-> <<>>, status |-> "waiting", notifiedAt |-> FALSE],
     [userId |-> "u1", serviceId |-> "s60", date |-> 8,
      preferredTimeSlots |-> <<>>, status |-> "waiting", notifiedAt |-> FALSE],
     [userId |-> "a1", serviceId |-> "s30", date |-> 9,
      preferredTimeSlots |-> <<>>, status |-> "waiting", notifiedAt |-> FALSE]}

PassDates == {8, 9}

MaxPassEntries == 3

\* The sequences of at most n different elements of S.
ListsOf(S, n) ==
    {f \in UNION {[1..k -> S] : k \in 0..n} :
        \A i, j \in 1..Len(f) : i # j => f[i] # f[j]}

\* The data store after the bookings were made one after the other (no two
\* active ones overlap) and the users joined the waitlist, with the SMS
\* gateway up or down.
InitPass ==
    /\ util = UtilIdle
    /\ appointments \in
           {f \in ListsOf(PassAppointmentDocs, MaxAppts) :
               \A i, j \in 1..Len(f) : i < j => ~DoubleBooked(f[i], f[j])}
    /\ waitlist \in ListsOf(PassWaitlistDocs, MaxPassEntries)
    /\ loyaltyPoints = [u \in DOMAIN UserDocs |-> 0]
    /\ outbox = <<>>
    /\ response = [op |-> "none", code |-> 0]
    /\ reqs = <<>>
    /\ http = [stage |-> "idle"]
    /\ calls = <<>>
    /\ twilioUp \in BOOLEAN

\* await updateWaitlistForDate(date)
RunPass(date) ==
    /\ \E pass \in {updateWaitlistForDate(waitlist, appointments, date)} :
          /\ waitlist' = pass.waitlist
          /\ outbox' = pass.outbox
          /\ calls' = <<pass.log>>
    /\ response' = [op |-> "updateWaitlistForDate", code |-> 0]
    /\ UNCHANGED <<util, appointments, loyaltyPoints, reqs, http, twilioUp>>

NextPass == \E date \in PassDates : RunPass(date)

SpecPass == InitPass /\ [][NextPass]_vars

----------------------------------------------------------------------------
(* Properties of a run of updateWaitlistForDate (checked under SpecPass)   *)

\* The step is one run of updateWaitlistForDate, for the date PassDay.
IsPass == response'.op = "updateWaitlistForDate"

PassDay == calls'[1].date

\* The entries of a date that are waiting, by position (creation order).
WaitingIds(wl, day) ==
    {k \in 1..Len(wl) : wl[k].date = day /\ wl[k].status = "waiting"}

\* The slots open on a date for a service.
OpenSlots(appts, day, serviceId) ==
    getAvailableTimeSlots(day, FormattedAppointments(appts, day, 0),
                          ServiceDocs[serviceId].duration)

\* C13: when exactly one slot is open on a date and two waiting entries for
\* that date and the same service exist, one pass notifies the earlier-created
\* entry and leaves the later-created one waiting.
C13_Original ==
    [][IsPass =>
         \A i, j \in 1..Len(waitlist) :
            (/\ i < j
             /\ WaitingIds(waitlist, PassDay) = {i, j}
             /\ waitlist[i].serviceId = waitlist[j].serviceId
             /\ Len(OpenSlots(appointments, PassDay, waitlist[i].serviceId)) = 1)
                => /\ waitlist'[i].status = "notified"
                   /\ waitlist'[j].status = "waiting"]_vars

\* C14: a pass takes the waiting entries of its date in ascending creation
\* order: an entry is notified only after every earlier-created waiting entry
\* of the date was taken, and an earlier entry for the same service duration
\* is never left waiting while a later one is notified.
C14_AscendingCreationOrder ==
    [][IsPass =>
         LET seen == calls'[1].considered
             waiting == WaitingIds(waitlist, PassDay)
         IN /\ \A p, q \in 1..Len(seen) : p < q => seen[p] < seen[q]
            /\ \A p \in 1..Len(seen) : seen[p] \in waiting
            /\ \A i, j \in waiting :
                  (i < j /\ waitlist'[j].status = "notified") =>
                      /\ \E p, q \in 1..Len(seen) : p < q /\ seen[p] = i /\ seen[q] = j
                      /\ ServiceDocs[waitlist[i].serviceId].duration
                             = ServiceDocs[waitlist[j].serviceId].duration
                           => waitlist'[i].status = "notified"]_vars

\* Two entries of the date were taken in creation order; the first, whose
\* longer service fits no open slot, still waits and the second is notified.
C14_Witness ==
    /\ response.op = "updateWaitlistForDate"
    /\ calls[1].considered = <<1, 2>>
    /\ waitlist[1].status = "waiting" /\ waitlist[1].date = calls[1].date
    /\ waitlist[2].status = "notified" /\ waitlist[2].date = calls[1].date

\* The first of the preferred slots, in listed order, that is available; the
\* earliest available slot when there is none.
ExpectedSlot(preferredTimeSlots, availableSlots) ==
    LET hits == {p \in 1..Len(preferredTimeSlots) :
                    \E a \in 1..Len(availableSlots) :
                        availableSlots[a] = preferredTimeSlots[p]}
    IN IF hits = {} THEN availableSlots[1]
       ELSE preferredTimeSlots[CHOOSE p \in hits : \A q \in hits : p <= q]

\* C15: the notification of a waiting entry with open slots carries the first
\* of its preferredTimeSlots, in listed order, that is open, and the earliest
\* open slot when no preference is open or none was given.
C15_PreferredElseEarliest ==
    [][IsPass =>
         /\ \A m \in 1..Len(outbox') :
               \E i \in WaitingIds(waitlist, PassDay) :
                  /\ outbox'[m].kind = "waitlistSMS"
                  /\ outbox'[m].date = PassDay
                  /\ waitlist[i].userId = outbox'[m].to
                  /\ waitlist[i].serviceId = outbox'[m].serviceId
                  /\ waitlist'[i].status = "notified"
                  /\ OpenSlots(appointments', PassDay, waitlist[i].serviceId) # <<>>
                  /\ outbox'[m].slot =
                         ExpectedSlot(waitlist[i].preferredTimeSlots,
                                      OpenSlots(appointments', PassDay,
                                                waitlist[i].serviceId))
         /\ \A i \in WaitingIds(waitlist, PassDay) :
               (/\ waitlist'[i].status = "notified"
                /\ waitlist[i].userId \in DOMAIN UserDocs
                /\ UserDocs[waitlist[i].userId].smsNotifications)
                  => \E m \in 1..Len(outbox') :
                        /\ outbox'[m].to = waitlist[i].userId
                        /\ outbox'[m].serviceId = waitlist[i].serviceId]_vars

\* With 10:00 booked and 09:00 open, the entry preferring 10:00 and then 10:30
\* is notified with 10:30.
C15_Witness ==
    /\ response.op = "updateWaitlistForDate"
    /\ appointments = <<[userId |-> "u1", serviceId |-> "s30", date |-> 8,
                         timeSlot |-> T1000, status |-> "pending"]>>
    /\ Len(outbox) = 1
    /\ outbox[1].slot = T1030
    /\ \E i \in 1..Len(waitlist) :
          /\ waitlist[i].preferredTimeSlots = <<T1000, T1030>>
          /\ waitlist[i].status = "notified"

\* C16: a run for a date right after a run for the same date, with no write
\* in between, changes no waitlist entry and dispatches no notification.
C16_Original ==
    [][(/\ IsPass
        /\ response.op = "updateWaitlistForDate"
        /\ calls[1].date = PassDay)
          => (waitlist' = waitlist /\ outbox' = <<>>)]_vars

DispatchFailed(i) ==
    \E m \in 1..Len(outbox') :
        /\ outbox'[m].to = waitlist[i].userId
        /\ outbox'[m].serviceId = waitlist[i].serviceId
        /\ ~outbox'[m].delivered

\* The loop of the run took entry i.
Considered(i) == \E p \in 1..Len(calls'[1].considered) : calls'[1].considered[p] = i

\* C22: when the dispatch of the notification of an entry fails during a
\* pass, the entry stays 'notified' with notifiedAt set, and every waiting
\* entry of the date that comes after it is still taken by the pass.
C22_Original ==
    [][IsPass =>
         \A i \in WaitingIds(waitlist, PassDay) :
            DispatchFailed(i) =>
               /\ waitlist'[i].status = "notified"
               /\ waitlist'[i].notifiedAt
               /\ \A j \in WaitingIds(waitlist, PassDay) : j > i => Considered(j)]_vars

\* C25: a run that comes late, or after runs that were left out, changes no
\* appointment, and notifies every entry still waiting for its date whose
\* service fits a slot that is open by then.
C25_Original ==
    [][IsPass =>
         /\ appointments' = appointments
         /\ \A i \in WaitingIds(waitlist, PassDay) :
               OpenSlots(appointments, PassDay, waitlist[i].serviceId) # <<>>
                  => waitlist'[i].status = "notified"]_vars

\* C27: in a pass a waiting entry whose service fits no open slot stays as it
\* is, and every later waiting entry of the date whose service fits an open
\* slot is notified by the same pass.
C27_Original ==
    [][IsPass =>
         \A i \in WaitingIds(waitlist, PassDay) :
            OpenSlots(appointments, PassDay, waitlist[i].serviceId) = <<>> =>
               /\ waitlist'[i] = waitlist[i]
               /\ \A j \in WaitingIds(waitlist, PassDay) :
                     (/\ j > i
                      /\ OpenSlots(appointments, PassDay, waitlist[j].serviceId) # <<>>)
                        => waitlist'[j].status = "notified"]_vars

----------------------------------------------------------------------------
(* Requests in steps under fair scheduling: every query a handler awaits    *)
(* is answered, and the event loop then resumes the handler                *)

\* Two users wait for Monday 8 January when the requests arrive.
LiveWaitlist ==
    <<[userId |-> "u1", serviceId |-> "s30", date |-> 8, preferredTimeSlots |-> <<>>,
       status |-> "waiting", notifiedAt |-> FALSE],
      [userId |-> "a1", serviceId |-> "s60", date |-> 8, preferredTimeSlots |-> <<>>,
       status |-> "waiting", notifiedAt |-> FALSE]>>

InitLive ==
    /\ util = UtilIdle
    /\ appointments = <<>>
    /\ waitlist = LiveWaitlist
    /\ loyaltyPoints = [u \in DOMAIN UserDocs |-> 0]
    /\ outbox = <<>>
    /\ response = [op |-> "none", code |-> 0]
    /\ reqs = [r \in 1..MaxReqs |-> IdleReq]
    /\ http = [stage |-> "idle"]
    /\ calls = <<>>
    /\ twilioUp = TRUE

\* A handler that awaits a query is resumed: weak fairness of each step of
\* each request.  For CheckAvailability and Complete the fairness condition
\* is written out, their enabling condition being the position of the
\* request: WF_vars(A) is []<>~ENABLED <<A>>_vars \/ []<><<A>>_vars.
Resumed ==
    \A r \in 1..MaxReqs :
        /\ WF_vars(ReadExisting(r))
        /\ []<>(reqs[r].pc # "check") \/ []<><<CheckAvailability(r)>>_vars
        /\ WF_vars(Save(r))
        /\ []<>(reqs[r].pc # "saved") \/ []<><<Complete(r)>>_vars

SpecLive == InitLive /\ [][NextConc]_vars /\ Resumed

\* The entries of a log of updateWaitlistForDate are entries of the waitlist,
\* each taken once.
EachEntryOnce(log) ==
    /\ \A p \in 1..Len(log.considered) : log.considered[p] \in 1..Len(waitlist)
    /\ \A p, q \in 1..Len(log.considered) :
          p # q => log.considered[p] # log.considered[q]

----------------------------------------------------------------------------
(* Requests with well-formed and ill-formed inputs                          *)

\* Bodies of POST /: a booking of u1, one of g1 (whose User document is
\* gone), one by the admin for a user that does not exist, one for a service
\* that does not exist, and two with a field missing.
InputCreates ==
    {[by |-> "u1", serviceId |-> "s30", timeSlot |-> T0900, userId |-> ""],
     [by |-> "g1", serviceId |-> "s30", timeSlot |-> T0930, userId |-> ""],
     [by |-> "a1", serviceId |-> "s30", timeSlot |-> T0900, userId |-> "id9"],
     [by |-> "u1", serviceId |-> "s99", timeSlot |-> T0900, userId |-> ""],
     [by |-> "u1", serviceId |-> "", timeSlot |-> T0900, userId |-> ""],
     [by |-> "u1", serviceId |-> "s30", timeSlot |-> <<>>, userId |-> ""]}

\* Dates: missing, malformed, past (Thursday 4 January), Saturday 6 January
\* and Monday 8 January.
InputDates == {"", "next monday", "2024-01-04", "2024-01-06", "2024-01-08"}

InputSlots == {<<>>, T0900, T0930}

InputStatuses == {"done", "cancelled"}

InputJoinServices == {"s30", "s99"}

InputJoinDates == {"2024-01-04", "2024-01-08"}

NextInputCreate ==
    \E c \in InputCreates, d \in InputDates :
        CreateAppointment(ReqUser(c.by), c.serviceId, d, c.timeSlot, c.userId)

NextInputUpdate ==
    \E id \in 1..MaxAppts, st \in InputStatuses : UpdateAppointment(ReqUser("a1"), id, st)

NextInputReschedule ==
    \E id \in 1..MaxAppts, d \in InputDates, t \in InputSlots :
        Reschedule(ReqUser("a1"), id, d, t)

NextInputCancel ==
    \E u \in {"u1", "a1"}, id \in 1..MaxAppts : CancelAppointment(ReqUser(u), id)

NextInputJoin ==
    \E s \in InputJoinServices, d \in InputJoinDates :
        JoinWaitlist(ReqUser("u1"), d, s, <<>>)

NextInput ==
    \/ NextInputCreate
    \/ NextInputUpdate
    \/ NextInputReschedule
    \/ NextInputCancel
    \/ NextInputJoin

SpecInput == Init /\ [][NextInput]_vars

----------------------------------------------------------------------------
(* Properties of rejected and accepted requests (checked under SpecInput)  *)

\* C21: a request answered 400 (validation, slot not available), 404 (service,
\* user or appointment not found) or 403 changes no appointment, no loyalty
\* points and no waitlist entry, and dispatches no notification.
C21_RejectionChangesNothing ==
    [][response'.code \in {400, 403, 404} =>
         /\ appointments' = appointments
         /\ loyaltyPoints' = loyaltyPoints
         /\ waitlist' = waitlist
         /\ outbox' = <<>>]_vars

\* A booking was refused by isTimeSlotAvailable while an entry was waiting for
\* the date: the appointment in the way is all there is, the entry still
\* waits and no points were added beyond those of the first booking.
C21_Witness ==
    /\ response = [op |-> "create", code |-> 400]
    /\ Len(calls) = 1
    /\ calls[1].fn = "isTimeSlotAvailable"
    /\ Len(appointments) = 1
    /\ loyaltyPoints["u1"] = 10
    /\ Len(waitlist) = 1
    /\ waitlist[1].status = "waiting"
    /\ waitlist[1].date = calls[1].date

\* C29: every active appointment is on a business day and on a slot that the
\* availability query for its date and service lists when the appointment
\* itself is left out.
C29_Original ==
    \A i \in 1..Len(appointments) :
        IsActive(appointments[i].status) =>
            /\ isBusinessDay(appointments[i].date)
            /\ Includes(getAvailableTimeSlots(
                            appointments[i].date,
                            FormattedAppointments(appointments, appointments[i].date, i),
                            ServiceDocs[appointments[i].serviceId].duration),
                        appointments[i].timeSlot)

----------------------------------------------------------------------------
(* The router of routes/appointments: GET requests                         *)

\* The routes in the order of their registration.  A pattern is the sequence
\* of the path's segments, ":id" being a route parameter.
Routes ==
    <<[method |-> "GET", pattern |-> <<>>, handler |-> "list"],
      [method |-> "GET", pattern |-> <<"user">>, handler |-> "user"],
      [method |-> "GET", pattern |-> <<":id">>, handler |-> "byId"],
      [method |-> "GET", pattern |-> <<"available">>, handler |-> "available"],
      [method |-> "POST", pattern |-> <<>>, handler |-> "create"],
      [method |-> "PUT", pattern |-> <<":id">>, handler |-> "update"],
      [method |-> "PUT", pattern |-> <<":id", "reschedule">>, handler |-> "reschedule"],
      [method |-> "DELETE", pattern |-> <<":id">>, handler |-> "cancel"],
      [method |-> "GET", pattern |-> <<"waitlist">>, handler |-> "waitlist"],
      [method |-> "POST", pattern |-> <<"waitlist">>, handler |-> "joinWaitlist"]>>

\* Express path matching: a parameter matches any one segment.
Matches(pattern, path) ==
    /\ Len(pattern) = Len(path)
    /\ \A i \in 1..Len(pattern) : pattern[i] = ":id" \/ pattern[i] = path[i]

RouteMatches(k, method, path) ==
    Routes[k].method = method /\ Matches(Routes[k].pattern, path)

\* The first route, in registration order, that matches; 0 when none does.
\* No handler of this router calls next(), so no later route is tried.
Dispatch(method, path) ==
    IF \E k \in 1..Len(Routes) : RouteMatches(k, method, path)
    THEN CHOOSE k \in 1..Len(Routes) :
             /\ RouteMatches(k, method, path)
             /\ \A j \in 1..(k - 1) : ~RouteMatches(j, method, path)
    ELSE 0

Answer(code, kind, body) == [code |-> code, kind |-> kind, body |-> body]

\* The auth middleware: without a token it answers 401.
auth(token) == token # ""

\* The admin middleware.
admin(token) == token \in DOMAIN UserDocs /\ UserDocs[token].role = "admin"

\* The index of the appointment with that _id, 0 when there is none.
AppointmentOf(id) ==
    LET k == CASE id = "id1" -> 1 [] id = "id2" -> 2 [] id = "id3" -> 3 [] OTHER -> 0
    IN IF k <= Len(appointments) THEN k ELSE 0

\* The handler of GET /:id.
GetById(token, id) ==
    IF ~IsObjectId(id) THEN Answer(404, "message", <<>>)
    ELSE IF AppointmentOf(id) = 0 THEN Answer(404, "message", <<>>)
    ELSE IF NotAuthorized(appointments[AppointmentOf(id)], ReqUser(token))
    THEN Answer(403, "message", <<>>)
    ELSE Answer(200, "appointment", <<>>)

\* The handler of GET /available.
GetAvailable(date, serviceId) ==
    IF date = "" \/ serviceId = "" THEN Answer(400, "message", <<>>)
    ELSE IF ~ParseDate(date).valid THEN Answer(400, "message", <<>>)
    ELSE IF ParseDate(date).day < Today THEN Answer(400, "message", <<>>)
    ELSE IF ~isBusinessDay(ParseDate(date).day) THEN Answer(400, "message", <<>>)
    ELSE IF ~IsObjectId(serviceId) THEN Answer(500, "message", <<>>)
    ELSE IF serviceId \notin DOMAIN ServiceDocs THEN Answer(404, "message", <<>>)
    ELSE Answer(200, "slots",
                getAvailableTimeSlots(
                    ParseDate(date).day,
                    FormattedAppointments(appointments, ParseDate(date).day, 0),
                    ServiceDocs[serviceId].duration))

\* The middleware chain and handler of route k for a GET request.
RunRoute(k, token, path, date, serviceId) ==
    LET handler == Routes[k].handler
    IN IF handler = "available" THEN GetAvailable(date, serviceId)
       ELSE IF ~auth(token) THEN Answer(401, "message", <<>>)
       ELSE IF handler \in {"list", "waitlist"} /\ ~admin(token)
       THEN Answer(403, "message", <<>>)
       ELSE IF handler = "byId" THEN GetById(token, path[1])
       ELSE Answer(200, handler, <<>>)

\* One GET request from arrival to response.
HttpGet(token, path, date, serviceId) ==
    /\ \E k \in {Dispatch("GET", path)} :
         \E answer \in {IF k = 0 THEN Answer(404, "message", <<>>)
                         ELSE RunRoute(k, token, path, date, serviceId)} :
            http' = [stage |-> "done", token |-> token, path |-> path, date |-> date,
                     serviceId |-> serviceId,
                     handler |-> IF k = 0 THEN "none" ELSE Routes[k].handler,
                     code |-> answer.code, kind |-> answer.kind, body |-> answer.body]
    /\ UNCHANGED <<util, appointments, waitlist, loyaltyPoints, outbox, response, reqs, calls, twilioUp>>

GetTokens == {"", "u1", "a1"}

GetPaths == {<<>>, <<"user">>, <<"available">>, <<"waitlist">>, <<"id1">>}

GetDates == {"", "garbage", "2024-01-06", "2024-01-08"}

GetServices == {"", "s99", "s30"}

NextHttpGet ==
    \E token \in GetTokens, path \in GetPaths, d \in GetDates, s \in GetServices :
        HttpGet(token, path, d, s)

NextRouteCreate ==
    CreateAppointment(ReqUser("u1"), "s30", "2024-01-08", T0900, "")

NextRoute ==
    \/ NextHttpGet
    \/ NextRouteCreate

SpecRoute == Init /\ [][NextRoute]_vars

\* The parameters of GET /available are present and valid.
ValidAvailableQuery ==
    /\ http.date # "" /\ http.serviceId # ""
    /\ ParseDate(http.date).valid
    /\ ParseDate(http.date).day >= Today
    /\ isBusinessDay(ParseDate(http.date).day)

\* C4: GET /available is dispatched to the availability handler; with a valid
\* date and a known service it is answered 200 with the open slots, with
\* missing or invalid parameters 400, and with an unknown service 404.
C4_Original ==
    (http.stage = "done" /\ http.path = <<"available">>) =>
        /\ http.handler = "available"
        /\ (ValidAvailableQuery /\ http.serviceId \in DOMAIN ServiceDocs) =>
              /\ http.code = 200
              /\ http.kind = "slots"
              /\ http.body = getAvailableTimeSlots(
                                 ParseDate(http.date).day,
                                 FormattedAppointments(appointments,
                                                       ParseDate(http.date).day, 0),
                                 ServiceDocs[http.serviceId].duration)
        /\ ~ValidAvailableQuery => http.code = 400
        /\ (ValidAvailableQuery /\ http.serviceId \notin DOMAIN ServiceDocs)
              => http.code = 404

====
